---- MODULE Spec2Model ----
(***************************************************************************)
(* Model of the structured-data web scraper (Crawlee/Puppeteer actor).    *)
(*                                                                         *)
(* The sources hold three builds of the router module:                    *)
(*   "A"  src/src/routes.js lines 1-463    (fixed three-column extractor)  *)
(*   "B"  src/src/routes.js lines 464-1578 (table / api / ASHA handlers)   *)
(*   "M"  src/src/main.js   lines 178-793  (generalised extractor, API     *)
(*        through gotScraping)                                             *)
(* A definition that exists once per build carries the build's letter as  *)
(* a suffix (processApiData_B).  Build M calls checkForPagination and      *)
(* handlePagination without defining them; it is modelled with the copy   *)
(* of routes.js 22-148, whose fallback label is one M registers.           *)
(*                                                                         *)
(* The crawler, the request queue, the page handle, the HTTP client and   *)
(* the dataset are outside the sources: the queue accepts every request   *)
(* handed to addRequests, the dataset accepts every pushData, and a page  *)
(* operation either answers or rejects, as the environment chooses.  A    *)
(* handler that raises hands its request to the crawler's retry policy,   *)
(* which is not followed here: the unit ends with the exception recorded. *)
(***************************************************************************)
EXTENDS Naturals, Integers, Sequences, FiniteSets, TLC

VARIABLES variant, queue, unit, datasetSize, norm, disc, tbl, loop, scan

vars == <<variant, queue, unit, datasetSize, norm, disc, tbl, loop, scan>>

Variants == {"A", "B", "M"}

(***************************************************************************)
(* Bounds of the model.                                                    *)
(***************************************************************************)
\* body objects of the normaliser runs have at most this many own fields
MaxFields == 2
\* at most this many page/queue operations reject while one unit is processed
MaxFails == 1
\* a continuation chain is followed for at most this many units
MaxHops == 2

(***************************************************************************)
(* JSON values.  A field value is [t, n, a, o]:                            *)
(*   t = "null" (null or undefined), "num" (number n), "str" (string of    *)
(*   length n), "url" (URL n), "arr" (array a of opaque records),          *)
(*   "obj" (plain object; o holds the sub-fields the code reads).          *)
(* A body is [t, n, a, f]: f is the own fields in enumeration order.       *)
(***************************************************************************)
NoSub == [totalPages |-> 0, nextPage |-> 0, totalResults |-> 0]

Val(t, n, a) == [t |-> t, n |-> n, a |-> a, o |-> NoSub]

Undef == Val("null", 0, <<>>)

ObjVal(tp, np, tr) ==
    [t |-> "obj", n |-> 0, a |-> <<>>,
     o |-> [totalPages |-> tp, nextPage |-> np, totalResults |-> tr]]

\* JavaScript truthiness of a field value
Truthy(v) ==
    CASE v.t = "null" -> FALSE
      [] v.t = "num"  -> v.n # 0
      [] v.t = "str"  -> v.n # 0
      [] OTHER        -> TRUE

IsArray(v) == v.t = "arr"

Body(t, n, a, f) == [t |-> t, n |-> n, a |-> a, f |-> f]

NullBody == Body("null", 0, <<>>, <<>>)

\* !apiResponse
BodyFalsy(b) == b.t = "null" \/ (b.t = "num" /\ b.n = 0)

HasKey(b, k) == b.t = "obj" /\ \E i \in 1..Len(b.f) : b.f[i][1] = k

\* apiResponse[k] on a non-null body: undefined when the key is absent or
\* the body is a scalar or an array
Get(b, k) ==
    IF HasKey(b, k)
    THEN b.f[CHOOSE i \in 1..Len(b.f) : b.f[i][1] = k][2]
    ELSE Undef

(***************************************************************************)
(* What processApiData hands back: "arr" (an array, elements a), "wrap"    *)
(* (the one-element array [apiResponse]), "val" (a value v that is not an  *)
(* array), "raise" (an exception left the function).                       *)
(***************************************************************************)
RArr(a) == [t |-> "arr", a |-> a, v |-> Undef]
RWrap == [t |-> "wrap", a |-> <<>>, v |-> Undef]
RRaise == [t |-> "raise", a |-> <<>>, v |-> Undef]
Ret(v) == IF IsArray(v) THEN RArr(v.a) ELSE [t |-> "val", a |-> <<>>, v |-> v]

\* !processedData || processedData.length === 0
NoRecords(r) == r.t = "arr" /\ r.a = <<>>

\* processedData.length, for the results that have one
RLen(r) ==
    CASE r.t = "arr"  -> Len(r.a)
      [] r.t = "wrap" -> 1
      [] OTHER        -> IF r.v.t = "str" THEN r.v.n ELSE 0

\* for (const field of fields) if (Array.isArray(..) && ...length > 0) return
FirstArrayField(b, nonEmptyOnly) ==
    LET hit(i) == IsArray(b.f[i][2]) /\ (nonEmptyOnly => b.f[i][2].a # <<>>)
        idx == {i \in 1..Len(b.f) : hit(i)}
    IN  IF idx = {} THEN 0 ELSE CHOOSE i \in idx : \A j \in idx : i <= j

processApiData_A(apiResponse, apiType) ==
    LET data == Get(apiResponse, "data")
        results == Get(apiResponse, "results")
        items == Get(apiResponse, "items")
        k == IF apiResponse.t = "obj" THEN FirstArrayField(apiResponse, TRUE) ELSE 0
    IN  IF BodyFalsy(apiResponse) THEN RArr(<<>>)
        ELSE IF apiResponse.t = "arr" THEN RArr(apiResponse.a)
        ELSE IF Truthy(data) /\ IsArray(data) THEN RArr(data.a)
        ELSE IF Truthy(results) /\ IsArray(results) THEN RArr(results.a)
        ELSE IF Truthy(items) /\ IsArray(items) THEN RArr(items.a)
        ELSE IF apiType = "asha" /\ Truthy(results) THEN Ret(results)
        ELSE IF k # 0 THEN RArr(apiResponse.f[k][2].a)
        ELSE RWrap

\* a processApiData that gives up with [] where no array is located
processApiData_B_EmptyFallback(apiResponse, apiType) ==
    LET data == Get(apiResponse, "data")
        results == Get(apiResponse, "results")
        items == Get(apiResponse, "items")
        k == IF apiResponse.t = "obj" THEN FirstArrayField(apiResponse, TRUE) ELSE 0
    IN  IF BodyFalsy(apiResponse) THEN RArr(<<>>)
        ELSE IF apiResponse.t = "arr" THEN RArr(apiResponse.a)
        ELSE IF apiType = "asha" /\ Truthy(results) THEN Ret(results)
        ELSE IF Truthy(results) /\ IsArray(results) THEN RArr(results.a)
        ELSE IF Truthy(data) /\ IsArray(data) THEN RArr(data.a)
        ELSE IF Truthy(items) /\ IsArray(items) THEN RArr(items.a)
        ELSE IF k # 0 THEN RArr(apiResponse.f[k][2].a)
        ELSE RArr(<<>>)

processApiData_B(apiResponse, apiType) ==
    LET data == Get(apiResponse, "data")
        results == Get(apiResponse, "results")
        items == Get(apiResponse, "items")
        k == IF apiResponse.t = "obj" THEN FirstArrayField(apiResponse, TRUE) ELSE 0
    IN  IF BodyFalsy(apiResponse) THEN RArr(<<>>)
        ELSE IF apiResponse.t = "arr" THEN RArr(apiResponse.a)
        ELSE IF apiType = "asha" /\ Truthy(results) THEN Ret(results)
        ELSE IF Truthy(results) /\ IsArray(results) THEN RArr(results.a)
        ELSE IF Truthy(data) /\ IsArray(data) THEN RArr(data.a)
        ELSE IF Truthy(items) /\ IsArray(items) THEN RArr(items.a)
        ELSE IF k # 0 THEN RArr(apiResponse.f[k][2].a)
        ELSE RWrap

\* no null guard and no try/catch: apiResponse.data on null raises
processApiData_M(apiResponse, apiType) ==
    LET data == Get(apiResponse, "data")
        results == Get(apiResponse, "results")
        k == IF apiResponse.t = "obj" THEN FirstArrayField(apiResponse, FALSE) ELSE 0
    IN  IF apiResponse.t = "arr" THEN RArr(apiResponse.a)
        ELSE IF apiResponse.t = "null" THEN RRaise
        ELSE IF Truthy(data) /\ IsArray(data) THEN RArr(data.a)
        ELSE IF apiType = "asha" /\ Truthy(results) THEN Ret(results)
        ELSE IF k # 0 THEN RArr(apiResponse.f[k][2].a)
        ELSE RWrap

processApiData(v, apiResponse, apiType) ==
    CASE v = "A" -> processApiData_A(apiResponse, apiType)
      [] v = "B" -> processApiData_B(apiResponse, apiType)
      [] OTHER   -> processApiData_M(apiResponse, apiType)

(***************************************************************************)
(* Bodies given to the normaliser runs.                                    *)
(***************************************************************************)
Arrays == {<<>>, <<1>>, <<2, 1>>}

NormKeys == {"results", "data", "items", "rows", "meta"}

NormVals ==
    {Undef, Val("num", 0, <<>>), Val("num", 7, <<>>), Val("str", 3, <<>>),
     ObjVal(0, 0, 0)} \cup {Val("arr", 0, a) : a \in Arrays}

RECURSIVE FieldSeqs(_, _)
\* the field lists of at most n fields drawn from the key/value pairs ps
FieldSeqs(ps, n) ==
    IF n = 0 THEN {<<>>}
    ELSE LET shorter == FieldSeqs(ps, n - 1)
         IN  shorter \cup
             {Append(s, p) : s \in {x \in shorter : Len(x) = n - 1}, p \in ps}

DistinctKeys(f) == \A i, j \in 1..Len(f) : i # j => f[i][1] # f[j][1]

ObjBodies(ps, n) ==
    {Body("obj", 0, <<>>, f) : f \in {g \in FieldSeqs(ps, n) : DistinctKeys(g)}}

NormBodies ==
    {NullBody, Body("num", 0, <<>>, <<>>), Body("num", 7, <<>>, <<>>)}
    \cup {Body("arr", 0, a, <<>>) : a \in Arrays}
    \cup ObjBodies(NormKeys \X NormVals, MaxFields)

Flavors == {"none", "asha"}

NoNorm ==
    [variant |-> "-", body |-> NullBody, flavor |-> "none", done |-> FALSE,
     out |-> RWrap]

\* the calls the normaliser runs make: build, body and declared flavour
NormInputs ==
    {[variant |-> v, body |-> b, flavor |-> fl, done |-> FALSE, out |-> RWrap] :
        v \in Variants, b \in NormBodies, fl \in Flavors}

\* one call of processApiData of the build norm.variant
Normalize ==
    /\ ~norm.done
    /\ norm.variant \in Variants
    /\ norm' = [norm EXCEPT !.done = TRUE,
                            !.out = processApiData(norm.variant, norm.body, norm.flavor)]
    /\ UNCHANGED <<variant, queue, unit, datasetSize, disc, tbl, loop, scan>>

(***************************************************************************)
(* Table discovery, main.js 344-397.  A page is the sequence of its table  *)
(* elements in document order; of a table, discovery reads the class list  *)
(* and the number of tbody > tr rows.  The selector findTargetTable hands  *)
(* back is resolved, as document.querySelector resolves it, to the first   *)
(* table that matches it.                                                  *)
(***************************************************************************)
\* a page has at most this many tables
MaxTables == 2

\* if (bestTable && maxRows > 5)
MinRows == 5

\* the class lists (className) of the tables examined
TableClasses ==
    {{}, {"wikitable"}, {"wikitable", "sortable"}, {"data"}, {"data", "sortable"}}

RowCounts == {0, 3, 6, 8}

\* table.querySelectorAll('th').length
HeaderCounts == {0, 4}

\* hasId: the table has an id attribute; ids are unique in the document,
\* the id of the table at position i is written i
PageTable(hasId, classes, rows, headerCells) ==
    [hasId |-> hasId, classes |-> classes, rows |-> rows, headerCells |-> headerCells]

\* the tables examined: every class list with every row count, and the
\* tables with an id or with header cells among those without wikitable
PageTables ==
    {PageTable(FALSE, c, n, 0) : c \in TableClasses, n \in RowCounts}
    \cup {PageTable(d, c, n, h) :
            d \in BOOLEAN, c \in {{}, {"data"}}, n \in {6, 8}, h \in HeaderCounts}

\* the pages of at most n tables
Pages(n) == UNION {[1..k -> PageTables] : k \in 0..n}

\* a selector: #id (id # 0), the classes it requires, or (nth # 0)
\* table:nth-of-type(nth)
Selector(classes, nth) == [id |-> 0, classes |-> classes, nth |-> nth]

\* `#${bestTable.id}`
IdSelector(id) == [id |-> id, classes |-> {}, nth |-> 0]

NoSelector == Selector({}, 0)

Matches(sel, page, i) ==
    IF sel.id # 0 THEN page[i].hasId /\ i = sel.id
    ELSE IF sel.nth # 0 THEN i = sel.nth
    ELSE sel.classes \subseteq page[i].classes

\* document.querySelector(selector): index of the first match, 0 when none
QuerySelector(page, sel) ==
    LET hits == {i \in 1..Len(page) : Matches(sel, page, i)}
    IN  IF sel = NoSelector \/ hits = {} THEN 0
        ELSE CHOOSE i \in hits : \A j \in hits : i <= j

Found(sel) == [found |-> TRUE, selector |-> sel]

NoTarget == [found |-> FALSE, selector |-> NoSelector]

findTargetTable_NoMinRows(page) ==
    LET tables == 1..Len(page)
        has(sel) == QuerySelector(page, sel) # 0
        maxRows == IF tables = {} THEN 0
                   ELSE CHOOSE n \in {page[i].rows : i \in tables} :
                            \A i \in tables : page[i].rows <= n
        \* the first table with more rows than every table before it and at
        \* least as many as every table after it
        bestTable == IF maxRows = 0 THEN 0
                     ELSE CHOOSE i \in tables :
                              /\ page[i].rows = maxRows
                              /\ \A j \in tables : page[j].rows = maxRows => i <= j
    IN  IF has(Selector({"wikitable", "sortable"}, 0))
        THEN Found(Selector({"wikitable", "sortable"}, 0))
        ELSE IF has(Selector({"wikitable"}, 0))
        THEN Found(Selector({"wikitable"}, 0))
        ELSE IF bestTable # 0
        THEN IF page[bestTable].hasId
             THEN Found(IdSelector(bestTable))
             ELSE IF page[bestTable].classes # {}
             THEN Found(Selector(page[bestTable].classes, 0))
             ELSE Found(Selector({}, bestTable))
        ELSE NoTarget

findTargetTable_RowsFirst(page) ==
    LET tables == 1..Len(page)
        has(sel) == QuerySelector(page, sel) # 0
        maxRows == IF tables = {} THEN 0
                   ELSE CHOOSE n \in {page[i].rows : i \in tables} :
                            \A i \in tables : page[i].rows <= n
        \* the first table with more rows than every table before it and at
        \* least as many as every table after it
        bestTable == IF maxRows = 0 THEN 0
                     ELSE CHOOSE i \in tables :
                              /\ page[i].rows = maxRows
                              /\ \A j \in tables : page[j].rows = maxRows => i <= j
    IN  IF bestTable # 0 /\ maxRows > MinRows
        THEN IF page[bestTable].hasId
             THEN Found(IdSelector(bestTable))
             ELSE IF page[bestTable].classes # {}
             THEN Found(Selector(page[bestTable].classes, 0))
             ELSE Found(Selector({}, bestTable))
        ELSE IF has(Selector({"wikitable", "sortable"}, 0))
        THEN Found(Selector({"wikitable", "sortable"}, 0))
        ELSE IF has(Selector({"wikitable"}, 0))
        THEN Found(Selector({"wikitable"}, 0))
        ELSE NoTarget

\* main.js 344-397
findTargetTable(page) ==
    LET tables == 1..Len(page)
        has(sel) == QuerySelector(page, sel) # 0
        maxRows == IF tables = {} THEN 0
                   ELSE CHOOSE n \in {page[i].rows : i \in tables} :
                            \A i \in tables : page[i].rows <= n
        \* the first table with more rows than every table before it and at
        \* least as many as every table after it
        bestTable == IF maxRows = 0 THEN 0
                     ELSE CHOOSE i \in tables :
                              /\ page[i].rows = maxRows
                              /\ \A j \in tables : page[j].rows = maxRows => i <= j
    IN  IF has(Selector({"wikitable", "sortable"}, 0))
        THEN Found(Selector({"wikitable", "sortable"}, 0))
        ELSE IF has(Selector({"wikitable"}, 0))
        THEN Found(Selector({"wikitable"}, 0))
        ELSE IF bestTable # 0 /\ maxRows > MinRows
        THEN IF page[bestTable].hasId
             THEN Found(IdSelector(bestTable))
             ELSE IF page[bestTable].classes # {}
             THEN Found(Selector(page[bestTable].classes, 0))
             ELSE Found(Selector({}, bestTable))
        ELSE NoTarget

\* startUrl.tableSelector || null (main.js 44)
TableSelectors == {NoSelector, Selector({"data"}, 0)}

NoDisc ==
    [page |-> <<>>, tableSelector |-> NoSelector, done |-> FALSE, out |-> NoTarget]

\* the pages examined; a start URL with a tableSelector is examined on the
\* pages whose tables have neither id nor header cell
DiscInputs ==
    {[page |-> p, tableSelector |-> NoSelector, done |-> FALSE, out |-> NoTarget] :
        p \in Pages(MaxTables)}
    \cup
    {[page |-> p, tableSelector |-> ts, done |-> FALSE, out |-> NoTarget] :
        p \in {q \in Pages(MaxTables) :
                  \A i \in 1..Len(q) : ~q[i].hasId /\ q[i].headerCells = 0},
        ts \in TableSelectors}

\* main.js 244-245: the unit, whatever its tableSelector, looks for the table
FindTargetTable ==
    /\ ~disc.done
    /\ disc' = [disc EXCEPT !.done = TRUE, !.out = findTargetTable(disc.page)]
    /\ UNCHANGED <<variant, queue, unit, datasetSize, norm, tbl, loop, scan>>

(***************************************************************************)
(* Texts.  A text is a sequence of one-character strings.                  *)
(***************************************************************************)
Digits == {"0", "1", "2", "3", "4", "5", "6", "7", "8", "9"}

\* the characters the regular expressions' \s matches
Whitespace == {" ", "\n"}

\* the leading characters of s that are in set cs, counted
RECURSIVE LeadingIn(_, _)
LeadingIn(s, cs) ==
    IF s # <<>> /\ Head(s) \in cs THEN 1 + LeadingIn(Tail(s), cs) ELSE 0

\* text.replace(/\[\d+\]/g, '')
RECURSIVE StripRefs(_)
StripRefs(s) ==
    IF s = <<>> THEN <<>>
    ELSE LET n == LeadingIn(Tail(s), Digits)
         IN  IF Head(s) = "[" /\ n >= 1 /\ Len(s) >= n + 2 /\ s[n + 2] = "]"
             THEN StripRefs(SubSeq(s, n + 3, Len(s)))
             ELSE <<Head(s)>> \o StripRefs(Tail(s))

\* text.replace(/\s+/g, ' ')
RECURSIVE CollapseWhitespace(_)
CollapseWhitespace(s) ==
    IF s = <<>> THEN <<>>
    ELSE IF Head(s) \in Whitespace
    THEN <<" ">> \o CollapseWhitespace(SubSeq(s, LeadingIn(s, Whitespace) + 1, Len(s)))
    ELSE <<Head(s)>> \o CollapseWhitespace(Tail(s))

Reverse(s) == [i \in 1..Len(s) |-> s[Len(s) + 1 - i]]

\* String.prototype.trim
Trim(s) ==
    LET a == LeadingIn(s, Whitespace)
        b == LeadingIn(Reverse(s), Whitespace)
    IN  IF a = Len(s) THEN <<>> ELSE SubSeq(s, a + 1, Len(s) - b)

\* main.js 440-444 and 509-513
cleanText(text) == Trim(CollapseWhitespace(StripRefs(text)))

\* the characters of s that are in set cs, in order
RECURSIVE Keep(_, _)
Keep(s, cs) ==
    IF s = <<>> THEN <<>>
    ELSE (IF Head(s) \in cs THEN <<Head(s)>> ELSE <<>>) \o Keep(Tail(s), cs)

\* main.js 516-518: text.replace(/[^\d.-]/g, '').trim()
cleanNumericValue(text) == Trim(Keep(text, Digits \cup {".", "-"}))

\* main.js 585: /^[\d.,\-+%]+$/.test(cellText.replace(/\s/g, ''))
LooksNumeric(cellText) ==
    LET t == SelectSeq(cellText, LAMBDA c : c \notin Whitespace)
    IN  t # <<>> /\ \A i \in 1..Len(t) : t[i] \in Digits \cup {".", ",", "-", "+", "%"}

\* the lower-case form of a character (the i flag of the pattern)
Lower(c) ==
    CASE c = "A" -> "a"
      [] c = "C" -> "c"
      [] c = "N" -> "n"
      [] c = "O" -> "o"
      [] c = "P" -> "p"
      [] c = "R" -> "r"
      [] c = "T" -> "t"
      [] c = "U" -> "u"
      [] OTHER -> c

Contains(s, w) ==
    \E i \in 1..(Len(s) - Len(w) + 1) : SubSeq(s, i, i + Len(w) - 1) = w

\* main.js 584: the words of the numeric-name pattern
NumericNames ==
    {<<"r", "a", "n", "k">>,
     <<"n", "u", "m", "b", "e", "r">>,
     <<"c", "o", "u", "n", "t">>,
     <<"t", "o", "t", "a", "l">>,
     <<"s", "u", "m">>,
     <<"a", "v", "g">>,
     <<"p", "o", "p", "u", "l", "a", "t", "i", "o", "n">>,
     <<"p", "e", "r", "c", "e", "n", "t">>,
     <<"r", "a", "t", "e">>,
     <<"r", "a", "t", "i", "o">>,
     <<"i", "n", "d", "e", "x">>,
     <<"s", "c", "o", "r", "e">>,
     <<"r", "a", "t", "i", "n", "g">>}

\* main.js 584: /rank|number|...|rating/i.test(header)
IsNumericName(header) ==
    LET h == [i \in 1..Len(header) |-> Lower(header[i])]
    IN  \E w \in NumericNames : Contains(h, w)

\* the decimal digits of a column number
ColumnDigit(i) ==
    CASE i = 1 -> "1" [] i = 2 -> "2" [] i = 3 -> "3" [] i = 4 -> "4"
      [] i = 5 -> "5" [] i = 6 -> "6" [] i = 7 -> "7" [] i = 8 -> "8"
      [] OTHER -> "9"

\* main.js 486, 492, 578: `Column_${i}`
Column_(i) == <<"C", "o", "l", "u", "m", "n", "_", ColumnDigit(i)>>

\* routes.js 1338: `Column ${i}`
ColumnSpace(i) == <<"C", "o", "l", "u", "m", "n", " ", ColumnDigit(i)>>

\* the header texts and cell texts of the tables examined
HeaderTexts ==
    {<<"P", "o", "p", "u", "l", "a", "t", "i", "o", "n">>,
     <<"N", "a", "m", "e">>,
     <<"R", "a", "n", "k">>,
     <<>>,
     <<"C", "O", "U", "N", "T">>,
     <<"R", "a", "n", "k", "[", "1", "]">>,
     <<" ", "C", "i", "t", "y", "\n">>}

CellTexts ==
    {<<"1", ",", "2", "3", "4">>,
     <<"1", " ", "2", "3", "4">>,
     <<"-", "1", ".", "5", "%">>,
     <<"1", "2", "a">>,
     <<>>,
     <<"A", "u", "s", "t", "i", "n">>,
     <<"1", "[", "2", "]">>,
     <<"+">>,
     <<"a", " ", " ", "b">>,
     <<"[", "x", "]">>}


(***************************************************************************)
(* Tables.  A table is its header section (thead) and its rows: the rows   *)
(* of its body section (tbody) when it has one, its direct row children    *)
(* otherwise.  A row is the sequence of its cells; a cell has its tag, its *)
(* textContent and its first link.                                         *)
(***************************************************************************)
\* the rows of one section
MaxRows == 2

NoLink == [present |-> FALSE, text |-> <<>>, href |-> <<>>]

Link(text, href) == [present |-> TRUE, text |-> text, href |-> href]

Cell(tag, text, link) == [tag |-> tag, text |-> text, link |-> link]

Table(hasThead, head, hasTbody, body) ==
    [hasThead |-> hasThead, head |-> head, hasTbody |-> hasTbody, body |-> body]

\* the rows a header section is made of
HeadRows ==
    {<<>>,
     <<Cell("th", <<"R", "a", "n", "k">>, NoLink),
       Cell("th", <<>>, NoLink)>>,
     <<Cell("td", <<"N", "a", "m", "e">>, NoLink)>>,
     <<Cell("td", <<"N", "a", "m", "e">>, NoLink),
       Cell("th", <<"R", "a", "n", "k", "[", "1", "]">>, NoLink)>>,
     <<Cell("th", <<"N", "a", "m", "e">>, NoLink),
       Cell("th", <<"N", "a", "m", "e">>, NoLink)>>,
     <<Cell("th", <<"C", "o", "l", "u", "m", "n", "_", "2">>, NoLink)>>}

\* the rows a body is made of
BodyRows ==
    {<<>>,
     <<Cell("td", <<"1", ",", "2", "3", "4">>, NoLink)>>,
     <<Cell("td", <<"A", "u", "s", "t", "i", "n">>, NoLink),
       Cell("td", <<"1", "2", "a">>, NoLink)>>,
     <<Cell("th", <<"N", "a", "m", "e">>, NoLink)>>,
     <<Cell("th", <<"R", "a", "n", "k">>, NoLink),
       Cell("td", <<"1", " ", "2", "3", "4">>, NoLink)>>,
     <<Cell("td", <<"1", ",", "2", "3", "4">>, NoLink),
       Cell("td", <<"a", " ", " ", "b">>, NoLink),
       Cell("td", <<>>, NoLink)>>,
     <<Cell("td", <<"A", "u", "s", "t", "i", "n", "[", "1", "]">>, Link(<<"A", "u", "s", "t", "i", "n">>, <<"/", "a">>))>>}

RECURSIVE RowSeqs(_, _)
RowSeqs(rows, n) ==
    IF n = 0 THEN {<<>>}
    ELSE LET shorter == RowSeqs(rows, n - 1)
         IN  shorter \cup {Append(s, r) : s \in shorter, r \in rows}

Tables ==
    {Table(hasThead, head, hasTbody, body) :
        hasThead \in {TRUE}, head \in RowSeqs(HeadRows, MaxRows),
        hasTbody \in BOOLEAN, body \in RowSeqs(BodyRows, MaxRows)}
    \cup {Table(FALSE, <<>>, hasTbody, body) :
        hasTbody \in BOOLEAN, body \in RowSeqs(BodyRows, MaxRows)}
    \cup {Table(FALSE, <<>>, TRUE,
                <<<<Cell("th", h, NoLink)>>, <<Cell("td", c, NoLink)>>>>) :
        h \in HeaderTexts, c \in CellTexts}

\* row.querySelectorAll(tag)
CellsOf(row, tag) == SelectSeq(row, LAMBDA c : c.tag = tag)

\* table.querySelectorAll('tr'): the rows of the table in document order
AllTr(table) == table.head \o table.body

\* table.querySelector('tr:first-child'): the first row that is the first
\* child of its parent, as a sequence of at most one row
FirstChildTr(table) ==
    IF table.head # <<>> THEN <<table.head[1]>>
    ELSE IF table.body # <<>> /\ (table.hasTbody \/ ~table.hasThead)
    THEN <<table.body[1]>>
    ELSE <<>>

\* tbody.querySelector('tr:first-child')
TbodyFirstTr(table) == IF table.body # <<>> THEN <<table.body[1]>> ELSE <<>>

extractTableHeaders_NoPlaceholder(table) ==
    LET th == IF table.head # <<>> THEN CellsOf(table.head[1], "th") ELSE <<>>
    IN  [i \in 1..Len(th) |-> cleanText(th[i].text)]

\* main.js 433-498
extractTableHeaders(table) ==
    LET inThead == IF table.hasThead /\ table.head # <<>>
                   THEN CellsOf(table.head[1], "th") ELSE <<>>
        headerRow == IF table.hasTbody THEN TbodyFirstTr(table)
                     ELSE FirstChildTr(table)
        headerCells ==
            IF inThead # <<>> THEN inThead
            ELSE IF headerRow = <<>> THEN <<>>
            ELSE IF CellsOf(headerRow[1], "th") # <<>> THEN CellsOf(headerRow[1], "th")
            ELSE CellsOf(headerRow[1], "td")
        firstDataRow == IF table.hasTbody /\ table.body # <<>>
                        THEN TbodyFirstTr(table) ELSE FirstChildTr(table)
    IN  IF headerCells # <<>>
        THEN [i \in 1..Len(headerCells) |->
                 \* Array.from(headerCells).indexOf(cell) + 1 is i: the cells
                 \* are distinct nodes
                 LET text == cleanText(headerCells[i].text)
                 IN  IF text # <<>> THEN text ELSE Column_(i)]
        ELSE IF firstDataRow # <<>>
        THEN [i \in 1..Len(CellsOf(firstDataRow[1], "td")) |-> Column_(i)]
        ELSE <<>>

\* rowData[key] = value: a record is the sequence of its <<key, value>>
\* entries in the order the keys were first set
SetKey(rowData, key, value) ==
    IF \E i \in 1..Len(rowData) : rowData[i][1] = key
    THEN [i \in 1..Len(rowData) |->
             IF rowData[i][1] = key THEN <<key, value>> ELSE rowData[i]]
    ELSE Append(rowData, <<key, value>>)

\* main.js 521-530
extractCellText(cell) ==
    IF cell.link.present THEN cleanText(cell.link.text) ELSE cleanText(cell.text)

\* main.js 574-579
HeaderFor(headers, cellIndex) ==
    IF cellIndex < Len(headers) THEN headers[cellIndex + 1] ELSE Column_(cellIndex + 1)

StoredValue_NameOnly(header, cellText) ==
    IF IsNumericName(header) THEN cleanNumericValue(cellText) ELSE cellText

\* main.js 581-589
StoredValue(header, cellText) ==
    IF IsNumericName(header) /\ LooksNumeric(cellText)
    THEN cleanNumericValue(cellText) ELSE cellText

\* main.js 571-590: cells.forEach over the cells from 0-based cellIndex on
RECURSIVE RowData(_, _, _, _)
RowData(cells, cellIndex, headers, rowData) ==
    IF cellIndex >= Len(cells) THEN rowData
    ELSE LET header == HeaderFor(headers, cellIndex)
             cellText == extractCellText(cells[cellIndex + 1])
         IN  RowData(cells, cellIndex + 1, headers,
                     SetKey(rowData, header, StoredValue(header, cellText)))

\* main.js 532-541 and routes.js 1277-1287
AllRows(table) == IF table.hasTbody THEN table.body ELSE AllTr(table)

StartIndex_Structural(table) ==
    LET allRows == AllRows(table)
    IN  IF table.hasThead THEN Len(table.head)
        ELSE IF allRows # <<>> /\ CellsOf(allRows[1], "th") # <<>> THEN 1
        ELSE IF Len(allRows) >= 2 /\ Len(allRows[1]) # Len(allRows[2]) THEN 1
        ELSE 0

\* main.js 543-556 and routes.js 1291-1303
StartIndex(table) ==
    LET allRows == AllRows(table)
    IN  IF table.hasThead THEN Len(table.head)
        ELSE IF allRows # <<>> /\ CellsOf(allRows[1], "th") # <<>> THEN 1
        ELSE 0

\* main.js 559-594: the loop from 0-based index i on
RECURSIVE RowsFrom(_, _, _)
RowsFrom(allRows, i, headers) ==
    IF i >= Len(allRows) THEN <<>>
    ELSE LET cells == CellsOf(allRows[i + 1], "td")
         IN  (IF cells = <<>> THEN <<>> ELSE <<RowData(cells, 0, headers, <<>>)>>)
             \o RowsFrom(allRows, i + 1, headers)

\* main.js 503-597
extractTableRows(table, headers) == RowsFrom(AllRows(table), StartIndex(table), headers)

\* main.js 402-428
extractTableData_M(table) ==
    LET headers == extractTableHeaders(table)
    IN  [headers |-> headers, rows |-> extractTableRows(table, headers)]

\* routes.js 1273-1274: the text of every th of the table, trimmed
RECURSIVE ThTexts(_)
ThTexts(rows) ==
    IF rows = <<>> THEN <<>>
    ELSE LET th == CellsOf(Head(rows), "th")
         IN  [i \in 1..Len(th) |-> Trim(th[i].text)] \o ThTexts(Tail(rows))

\* routes.js 1305-1314
HeaderTexts_B(table) ==
    LET headerTexts == ThTexts(AllTr(table))
        allRows == AllRows(table)
        firstRowCells == IF allRows = <<>> THEN <<>> ELSE CellsOf(allRows[1], "td")
    IN  IF headerTexts = <<>> /\ firstRowCells # <<>>
        THEN [i \in 1..Len(firstRowCells) |-> Trim(firstRowCells[i].text)]
        ELSE headerTexts

\* routes.js 1291-1314
StartIndex_B(table) ==
    LET allRows == AllRows(table)
    IN  IF /\ ThTexts(AllTr(table)) = <<>>
           /\ allRows # <<>>
           /\ CellsOf(allRows[1], "td") # <<>>
        THEN 1 ELSE StartIndex(table)

\* routes.js 1329-1354: the cells from 0-based cellIndex on
RECURSIVE RowData_B(_, _, _, _)
RowData_B(cells, cellIndex, headerTexts, rowData) ==
    IF cellIndex >= Len(cells) THEN rowData
    ELSE LET cell == cells[cellIndex + 1]
             cellText == Trim(cell.text)
             linkHref == cell.link.href
             linkText == Trim(cell.link.text)
             columnName ==
                 IF cellIndex < Len(headerTexts) /\ headerTexts[cellIndex + 1] # <<>>
                 THEN headerTexts[cellIndex + 1] ELSE ColumnSpace(cellIndex + 1)
             stored == SetKey(rowData, columnName, cellText)
             withUrl == IF linkHref # <<>>
                        THEN SetKey(stored, columnName \o <<" ", "U", "R", "L">>, linkHref)
                        ELSE stored
             withText ==
                 IF linkText # <<>> /\ linkText # cellText
                 THEN SetKey(withUrl,
                             columnName \o <<" ", "L", "i", "n", "k", " ", "T", "e", "x", "t">>,
                             linkText)
                 ELSE withUrl
         IN  RowData_B(cells, cellIndex + 1, headerTexts, withText)

\* routes.js 1317-1366: the loop from 0-based index i on
RECURSIVE RowsFrom_B(_, _, _)
RowsFrom_B(allRows, i, headerTexts) ==
    IF i >= Len(allRows) THEN <<>>
    ELSE LET cells == CellsOf(allRows[i + 1], "td")
         IN  (IF cells = <<>> THEN <<>> ELSE <<RowData_B(cells, 0, headerTexts, <<>>)>>)
             \o RowsFrom_B(allRows, i + 1, headerTexts)

\* routes.js 1270-1380: the table to structured-object helper of
\* identifyAndExtractTables
identifyAndExtractTables_B(table) ==
    LET headerTexts == HeaderTexts_B(table)
    IN  [headers |-> headerTexts,
         rows |-> RowsFrom_B(AllRows(table), StartIndex_B(table), headerTexts)]

NoTbl == [table |-> Table(FALSE, <<>>, FALSE, <<>>), done |-> FALSE,
          headers |-> <<>>, rows |-> <<>>]

TblInputs == {[NoTbl EXCEPT !.table = t] : t \in Tables}

\* main.js 255 and routes.js 1225: the unit extracts the table
ExtractTableData ==
    /\ ~tbl.done
    /\ variant \in {"B", "M"}
    /\ LET out == IF variant = "M" THEN extractTableData_M(tbl.table)
                  ELSE identifyAndExtractTables_B(tbl.table)
       IN  tbl' = [tbl EXCEPT !.done = TRUE, !.headers = out.headers, !.rows = out.rows]
    /\ UNCHANGED <<variant, queue, unit, datasetSize, norm, disc, loop, scan>>

(***************************************************************************)
(* URLs.  A URL is [base, page]: page is the value of the page query       *)
(* parameter, 0 when the URL has none.  NoUrl is the empty href.           *)
(***************************************************************************)
\* the distinct locations a link or a start URL can name
NUrls == 3

Url(b) == [base |-> b, page |-> 0]

NoUrl == Url(0)

Urls == {Url(b) : b \in 1..NUrls}

\* url.searchParams.set(pageParamName, nextPage.toString())
SetPageParam(u, n) == [u EXCEPT !.page = n]

InSeq(x, s) == \E i \in 1..Len(s) : s[i] = x

SeqSet(s) == {s[i] : i \in 1..Len(s)}

(***************************************************************************)
(* Requests: url and the userData fields the handlers read or write.       *)
(* "" and 0 stand for an absent field.  hop counts the continuations       *)
(* behind the request.  urlApi says that the URL contains '/api/',         *)
(* '/rest/' or '.json'; headers is "empty" for the object {} that main.js  *)
(* 34 puts there when none are supplied, "custom" otherwise.               *)
(***************************************************************************)
NoApiParams == [page |-> 0, firstResult |-> 0, numberOfResults |-> 0]

Request(url, label, dst, mode, apiType, pt, maxPages) ==
    [url |-> url, label |-> label, dataSourceType |-> dst, mode |-> mode,
     apiType |-> apiType, paginationType |-> pt, maxPages |-> maxPages,
     urlApi |-> FALSE, apiToken |-> FALSE, headers |-> "empty",
     page |-> 0, pageNumber |-> 0, firstResult |-> 0, numberOfResults |-> 0,
     bodyFirstResult |-> 0,
     pagesProcessed |-> <<>>, processedUrls |-> <<>>, processedPages |-> <<>>,
     apiParams |-> NoApiParams,
     hop |-> 0]

\* request.userData.numberOfResults || 10, apiParams.numberOfResults || 10
DefaultPageSize == 10

(***************************************************************************)
(* What the environment decides while one unit is processed.               *)
(*   tab     "none": no table (target) on the page, "empty": a table that   *)
(*           yields no row, "rows": rows were extracted                     *)
(*   direct  build A: the second, direct extraction finds rows              *)
(*   pag     what the in-page pagination scan returns                       *)
(*   fetch   "ok" (status, body), "http" (status >= 400), "network"         *)
(*           (the request itself fails), "text" (the body is not JSON)      *)
(*   captured, domCount, domTotal   ASHA: the intercepted response, the     *)
(*           number of result elements and the total shown on the page      *)
(*   fails   the page/queue operations that reject                          *)
(***************************************************************************)
PagInfo(found, url) == [found |-> found, url |-> url]

NotFound == PagInfo(FALSE, NoUrl)

\* { found: true, url: link.href }; the numeric strategy does not test href
PagInfos == {NotFound} \cup {PagInfo(TRUE, u) : u \in Urls \cup {NoUrl}}

Env(tab, direct, pag, fetch, status, body, captured, dc, dt, fails) ==
    [tab |-> tab, direct |-> direct, pag |-> pag, fetch |-> fetch,
     status |-> status, body |-> body, captured |-> captured,
     domCount |-> dc, domTotal |-> dt, fails |-> fails]

FailSets(ops) == {f \in SUBSET ops : Cardinality(f) <= MaxFails}

(***************************************************************************)
(* Outcome of running a piece of a handler: records pushed to the dataset, *)
(* requests handed to addRequests, the order of the steps taken, and       *)
(* whether an exception is leaving the piece.                              *)
(***************************************************************************)
Out(pushed, enq, ev, exc) == [pushed |-> pushed, enq |-> enq, ev |-> ev, exc |-> exc]

Nothing == Out(<<>>, <<>>, <<>>, FALSE)

Throw == Out(<<>>, <<>>, <<>>, TRUE)

\* run b after a: b is skipped when an exception is leaving a
Then(a, b) ==
    IF a.exc THEN a
    ELSE Out(a.pushed \o b.pushed, a.enq \o b.enq, a.ev \o b.ev, b.exc)

\* try { a } catch { b }
Catch(a, b) ==
    IF a.exc
    THEN Out(a.pushed \o b.pushed, a.enq \o b.enq, a.ev \o b.ev, b.exc)
    ELSE a

\* an awaited page or queue operation
PageOp(env, op) == IF op \in env.fails THEN Throw ELSE Nothing

Record(kind, rows, status) == [kind |-> kind, rows |-> rows, status |-> status]

\* Dataset.pushData
Push(rec) == Out(<<rec>>, <<>>, <<"push">>, FALSE)

\* crawler.addRequests([r])
AddRequests(env, r) ==
    IF "addRequests" \in env.fails THEN Throw
    ELSE Out(<<>>, <<r>>, <<"enqueue">>, FALSE)

(***************************************************************************)
(* HTML pagination.                                                        *)
(***************************************************************************)
\* the scan runs in the page; a rejected evaluate is caught: { found: false }
checkForPagination(env, op) == IF op \in env.fails THEN NotFound ELSE env.pag

\* a continuation that starts its visited list over
NextPageRequest_Reset(request, nextPageUrl, fallbackLabel) ==
    [request EXCEPT
        !.url = nextPageUrl,
        !.label = IF request.label = "" THEN fallbackLabel ELSE request.label,
        !.pagesProcessed = <<request.url>>,
        !.pageNumber = (IF request.pageNumber = 0 THEN 1 ELSE request.pageNumber) + 1,
        !.hop = request.hop + 1]

\* the continuation handlePagination builds
NextPageRequest(request, nextPageUrl, fallbackLabel) ==
    [request EXCEPT
        !.url = nextPageUrl,
        !.label = IF request.label = "" THEN fallbackLabel ELSE request.label,
        !.pagesProcessed = Append(request.pagesProcessed, request.url),
        !.pageNumber = (IF request.pageNumber = 0 THEN 1 ELSE request.pageNumber) + 1,
        !.hop = request.hop + 1]

\* a handlePagination that enqueues without consulting pagesProcessed
handlePagination_NoLoopGuard(request, env, given, paginationInfo, fallbackLabel) ==
    LET info == IF given THEN paginationInfo
                ELSE checkForPagination(env, "pagEval2")
    IN  Catch(IF info.found /\ info.url # NoUrl
              THEN AddRequests(env, NextPageRequest(request, info.url, fallbackLabel))
              ELSE Nothing,
              Nothing)

\* given: the caller passed paginationInfo; otherwise the page is scanned again
handlePagination(request, env, given, paginationInfo, fallbackLabel) ==
    LET info == IF given THEN paginationInfo
                ELSE checkForPagination(env, "pagEval2")
        body ==
            IF info.found /\ info.url # NoUrl
            THEN IF InSeq(info.url, request.pagesProcessed)
                 THEN Nothing
                 ELSE AddRequests(env, NextPageRequest(request, info.url, fallbackLabel))
            ELSE Nothing
    IN  Catch(body, Nothing)

\* try { info = checkForPagination; if (info && info.found) handlePagination }
\* catch { }
PaginationStep(request, env, fallbackLabel) ==
    LET info == checkForPagination(env, "pagEval")
    IN  Then(Out(<<>>, <<>>, <<"paginate">>, FALSE),
             Catch(IF info.found
                   THEN handlePagination(request, env, TRUE, info, fallbackLabel)
                   ELSE Nothing,
                   Nothing))

(***************************************************************************)
(* HTML extraction, builds A, B and M.                                     *)
(***************************************************************************)
DataRecord == Record("data", 1, 0)

ErrorRecord(status) == Record("error", 0, status)

\* routes.js 206-458: nothing is caught around the page operations
extractStructuredData_A(request, env) ==
    LET found ==
            Then(Push(DataRecord),
            Then(PageOp(env, "successShot"),
                 PaginationStep(request, env, "municipality-table")))
        direct ==
            IF env.direct
            THEN Then(Push(DataRecord),
                      PaginationStep(request, env, "municipality-table"))
            ELSE PageOp(env, "noTableShot")
    IN  Then(PageOp(env, "pre"),
        Then(PageOp(env, "extract"),
             IF env.tab = "rows" THEN found
             ELSE Then(PageOp(env, "extract2"), direct)))

\* an extractTableData that looks for the next page before it stores the rows
extractTableData_B_PaginateFirst(request, env) ==
    LET body ==
            Then(PageOp(env, "pre"),
            Then(PageOp(env, "extract"),
                 IF env.tab # "rows"
                 THEN PageOp(env, "noTableShot")
                 ELSE Then(PaginationStep(request, env, "table"),
                      Then(Push(DataRecord),
                           PageOp(env, "successShot")))))
    IN  Catch(body, PageOp(env, "errorShot"))

\* routes.js 1199-1262
extractTableData_B(request, env) ==
    LET body ==
            Then(PageOp(env, "pre"),
            Then(PageOp(env, "extract"),
                 IF env.tab # "rows"
                 THEN PageOp(env, "noTableShot")
                 ELSE Then(Push(DataRecord),
                      Then(PageOp(env, "successShot"),
                           PaginationStep(request, env, "table")))))
    IN  Catch(body, PageOp(env, "errorShot"))

(***************************************************************************)
(* API pagination and extraction, build B.                                 *)
(***************************************************************************)
\* the continuation handleApiPagination builds
NextApiRequest(request, target, nextPage, newBodyFirstResult) ==
    [request EXCEPT
        !.url = target,
        !.label = "api",
        !.page = nextPage,
        !.bodyFirstResult = newBodyFirstResult,
        !.processedUrls = Append(request.processedUrls, request.url),
        !.hop = request.hop + 1]

\* apiResponse.results?.length || 10
ResultsLength(apiResponse) ==
    LET results == Get(apiResponse, "results")
        n == IF IsArray(results) THEN Len(results.a)
             ELSE IF results.t = "str" THEN results.n ELSE 0
    IN  IF n = 0 THEN DefaultPageSize ELSE n

\* apiResponse.totalCount || apiResponse.totalCountFiltered, 0 when neither
\* is a non-zero number
TotalCount(apiResponse) ==
    LET a == Get(apiResponse, "totalCount")
        b == Get(apiResponse, "totalCountFiltered")
    IN  IF a.t = "num" /\ a.n # 0 THEN a.n
        ELSE IF b.t = "num" /\ b.n # 0 THEN b.n ELSE 0

\* a handleApiPagination that looks at pagination.totalPages before the
\* explicit next URL
ApiNextDecision_TotalPagesFirst(request, apiResponse) ==
    LET currentPage == IF request.page = 0 THEN 1 ELSE request.page
        nextPage == currentPage + 1
        np == Get(apiResponse, "nextPage")
        nx == Get(apiResponse, "next")
        pagination == Get(apiResponse, "pagination")
        offset == request.firstResult
        resultsPerPage == ResultsLength(apiResponse)
        D(h, u, i, b) == [hasNextPage |-> h, nextPageUrl |-> u, idiom |-> i,
                          newBodyFirstResult |-> b]
    IN  IF Truthy(pagination) /\ pagination.o.totalPages # 0
        THEN D(currentPage < pagination.o.totalPages, NoUrl, "totalPages",
               request.bodyFirstResult)
        ELSE IF Truthy(np) \/ Truthy(nx)
        THEN D(TRUE, IF Truthy(np) THEN Url(np.n) ELSE Url(nx.n), "next",
               request.bodyFirstResult)
        ELSE IF request.apiType = "asha"
        THEN IF offset + resultsPerPage < TotalCount(apiResponse)
             THEN D(TRUE, request.url, "offset", offset + resultsPerPage)
             ELSE D(FALSE, NoUrl, "offset", request.bodyFirstResult)
        ELSE IF request.paginationType = "page"
        THEN D(~NoRecords(processApiData_B(apiResponse, request.apiType)),
               SetPageParam(request.url, nextPage), "page",
               request.bodyFirstResult)
        ELSE D(FALSE, NoUrl, "none", request.bodyFirstResult)

\* the decision of handleApiPagination: [hasNextPage, nextPageUrl, idiom,
\* newBodyFirstResult]; nextPageUrl = NoUrl stands for null
ApiNextDecision(request, apiResponse) ==
    LET currentPage == IF request.page = 0 THEN 1 ELSE request.page
        nextPage == currentPage + 1
        np == Get(apiResponse, "nextPage")
        nx == Get(apiResponse, "next")
        pagination == Get(apiResponse, "pagination")
        offset == request.firstResult
        resultsPerPage == ResultsLength(apiResponse)
        D(h, u, i, b) == [hasNextPage |-> h, nextPageUrl |-> u, idiom |-> i,
                          newBodyFirstResult |-> b]
    IN  IF Truthy(np) \/ Truthy(nx)
        THEN D(TRUE, IF Truthy(np) THEN Url(np.n) ELSE Url(nx.n), "next",
               request.bodyFirstResult)
        ELSE IF Truthy(pagination) /\ pagination.o.totalPages # 0
        THEN D(currentPage < pagination.o.totalPages, NoUrl, "totalPages",
               request.bodyFirstResult)
        ELSE IF request.apiType = "asha"
        THEN IF offset + resultsPerPage < TotalCount(apiResponse)
             THEN D(TRUE, request.url, "offset", offset + resultsPerPage)
             ELSE D(FALSE, NoUrl, "offset", request.bodyFirstResult)
        ELSE IF request.paginationType = "page"
        THEN D(~NoRecords(processApiData_B(apiResponse, request.apiType)),
               SetPageParam(request.url, nextPage), "page",
               request.bodyFirstResult)
        ELSE D(FALSE, NoUrl, "none", request.bodyFirstResult)

\* the url of the continuation: nextPageUrl || request.url
ApiNextTarget(request, d) ==
    IF d.nextPageUrl # NoUrl THEN d.nextPageUrl ELSE request.url

\* routes.js 1114-1194
handleApiPagination(request, env, apiResponse) ==
    LET d == ApiNextDecision(request, apiResponse)
        nextPage == (IF request.page = 0 THEN 1 ELSE request.page) + 1
        body ==
            IF d.hasNextPage
            THEN IF InSeq(d.nextPageUrl, request.processedUrls)
                 THEN Nothing
                 ELSE AddRequests(env,
                          NextApiRequest(request, ApiNextTarget(request, d),
                                         nextPage, d.newBodyFirstResult))
            ELSE Nothing
    IN  Then(Out(<<>>, <<>>, <<"paginate">>, FALSE), Catch(body, Nothing))

\* the continuation handleAshaPagination builds
NextAshaRequest(request, currentPage, nextPage, nextOffset) ==
    [request EXCEPT
        !.label = "api",
        !.dataSourceType = "api",
        !.apiType = "asha",
        !.processedPages = Append(request.processedPages, currentPage),
        !.pageNumber = nextPage,
        !.firstResult = nextOffset,
        !.hop = request.hop + 1]

Min(a, b) == IF a <= b THEN a ELSE b

CeilDiv(a, b) == (a + b - 1) \div b

\* routes.js 961-1055
handleAshaPagination(request, env, totalCount, currentResultsCount) ==
    LET resultsPerPage == IF request.numberOfResults = 0 THEN DefaultPageSize
                          ELSE request.numberOfResults
        currentPage == currentResultsCount \div resultsPerPage
        maxPages == CeilDiv(totalCount, resultsPerPage)
        effectiveMaxPages == IF request.maxPages > 0
                             THEN Min(maxPages, request.maxPages) ELSE maxPages
        nextPage == currentPage + 1
        nextOffset == nextPage * resultsPerPage
        body ==
            IF currentPage >= effectiveMaxPages - 1 THEN Nothing
            ELSE IF InSeq(nextPage, request.processedPages) THEN Nothing
            ELSE Then(PageOp(env, "ashaNav"),
                      IF "navFalse" \in env.fails THEN Nothing
                      ELSE AddRequests(env,
                               NextAshaRequest(request, currentPage, nextPage,
                                               nextOffset)))
    IN  Then(Out(<<>>, <<>>, <<"paginate">>, FALSE), Catch(body, Nothing))

\* routes.js 859-956
extractAshaResultsFromPage(request, env) ==
    LET body ==
            Then(PageOp(env, "ashaDom"),
                 IF env.domCount = 0 THEN Nothing
                 ELSE Then(Push(Record("data", env.domCount, 0)),
                           IF env.domTotal > env.domCount
                           THEN handleAshaPagination(request, env, env.domTotal,
                                                     env.domCount)
                           ELSE Nothing))
    IN  Catch(body, PageOp(env, "domErrorShot"))

\* routes.js 699-854
extractAshaApiData(request, env) ==
    LET processedData == processApiData_B(env.captured, request.apiType)
        \* processedData.length is undefined for a number or an object
        hasLength == processedData.t # "val" \/ processedData.v.t = "str"
        totalCount == TotalCount(env.captured)
        body ==
            Then(PageOp(env, "ashaPre"),
                 IF ~BodyFalsy(env.captured)
                 THEN IF NoRecords(processedData)
                      THEN extractAshaResultsFromPage(request, env)
                      ELSE Then(Push(Record("data", RLen(processedData), 0)),
                                IF hasLength /\ totalCount > RLen(processedData)
                                THEN handleAshaPagination(request, env, totalCount,
                                                          RLen(processedData))
                                ELSE Nothing)
                 ELSE extractAshaResultsFromPage(request, env))
    IN  Catch(body, PageOp(env, "ashaErrorShot"))

\* what page.evaluate(fetch ...) resolves to (routes.js 561-650)
FetchResult_B(env) ==
    CASE env.fetch = "ok" -> env.body
      [] env.fetch = "http" ->
            Body("obj", 0, <<>>, <<<<"error", Val("num", 1, <<>>)>>,
                                   <<"status", Val("num", env.status, <<>>)>>>>)
      [] env.fetch = "network" ->
            Body("obj", 0, <<>>, <<<<"error", Val("num", 1, <<>>)>>>>)
      \* response.json() rejected; response.text() on the body it has read
      \* either still answers or rejects into the catch of the evaluate
      [] "readText" \in env.fails ->
            Body("obj", 0, <<>>, <<<<"error", Val("num", 1, <<>>)>>>>)
      [] OTHER ->
            Body("obj", 0, <<>>, <<<<"text", Val("str", 3, <<>>)>>,
                                   <<"_responseType", Val("str", 4, <<>>)>>>>)

\* routes.js 524-694
extractApiData_B(request, env) ==
    LET apiResponse == FetchResult_B(env)
        processedData == processApiData_B(apiResponse, request.apiType)
        body ==
            IF request.apiType = "asha" THEN extractAshaApiData(request, env)
            ELSE Then(PageOp(env, "fetchEval"),
                 \* apiResponse.error on null raises
                 IF apiResponse.t = "null" THEN Throw
                 ELSE IF Truthy(Get(apiResponse, "error")) THEN Nothing
                 ELSE IF NoRecords(processedData) THEN Nothing
                 ELSE Then(Push(Record("data", RLen(processedData), 0)),
                           handleApiPagination(request, env, apiResponse)))
    IN  Catch(body, PageOp(env, "errorShot"))

(***************************************************************************)
(* Build M: main.js 178-793.                                               *)
(***************************************************************************)
\* the continuation of the pagination.nextPage branch (main.js 696-710)
NextParamsPageRequest(request) ==
    [request EXCEPT
        !.apiParams.page =
            (IF request.apiParams.page = 0 THEN 1 ELSE request.apiParams.page) + 1,
        !.label = IF request.label = "" THEN "default" ELSE request.label,
        !.hop = request.hop + 1]

\* the continuation of the ASHA branch (main.js 722-736)
NextParamsOffsetRequest(request, nextStart) ==
    [request EXCEPT
        !.apiParams.firstResult = nextStart,
        !.label = IF request.label = "" THEN "default" ELSE request.label,
        !.hop = request.hop + 1]

\* main.js 692-738: the two pagination branches, one after the other
ApiPagination_M(request, env, apiResponse) ==
    LET pagination == Get(apiResponse, "pagination")
        apiType == IF request.apiType = "" THEN "standard" ELSE request.apiType
        currentStart == request.apiParams.firstResult
        pageSize == IF request.apiParams.numberOfResults = 0 THEN DefaultPageSize
                    ELSE request.apiParams.numberOfResults
        totalResults == pagination.o.totalResults
        first ==
            IF Truthy(pagination) /\ pagination.o.nextPage # 0
            THEN AddRequests(env, NextParamsPageRequest(request))
            ELSE Nothing
        second ==
            IF apiType = "asha" /\ Truthy(pagination)
               /\ currentStart + pageSize < totalResults
            THEN AddRequests(env, NextParamsOffsetRequest(request,
                                      currentStart + pageSize))
            ELSE Nothing
    IN  Then(Out(<<>>, <<>>, <<"paginate">>, FALSE), Then(first, second))

\* main.js 636-751
extractApiData_M(request, env) ==
    LET apiResponse == env.body
        processedData == processApiData_M(apiResponse, request.apiType)
        body ==
            IF env.fetch \in {"network", "text"} THEN Throw
            ELSE IF env.status >= 400 THEN Throw
            ELSE IF processedData.t = "raise" THEN Throw
            ELSE Then(Push(Record("data", RLen(processedData), 0)),
                      ApiPagination_M(request, env, apiResponse))
        status == IF env.fetch \in {"ok", "http"} /\ env.status >= 400
                  THEN env.status ELSE 0
    IN  Catch(body, Push(ErrorRecord(status)))

\* main.js 221-301
extractStructuredData_M(request, env) ==
    LET info == checkForPagination(env, "pagEval")
        html ==
            Then(PageOp(env, "pre"),
                 IF env.tab = "none"
                 THEN Then(PageOp(env, "noTableShot"), Push(ErrorRecord(0)))
                 ELSE Then(PageOp(env, "extract"),
                      IF env.tab = "empty"
                      THEN Then(PageOp(env, "noTableShot"), Push(ErrorRecord(0)))
                      ELSE Then(Push(DataRecord),
                           Then(Out(<<>>, <<>>, <<"paginate">>, FALSE),
                           Then(IF info.found
                                THEN handlePagination(request, env, FALSE, info,
                                                      "municipality-table")
                                ELSE Nothing,
                                PageOp(env, "successShot"))))))
    IN  IF request.mode = "api" THEN extractApiData_M(request, env) ELSE html

(***************************************************************************)
(* The in-page next-click loop of extractMunicipalityTable                 *)
(* (src/unnamed/part_000 80-140).  The document is at one of the URLs;     *)
(* site[u] is the URL the enabled next control of the page at u leads to,  *)
(* NoUrl when the page has no such control.                                *)
(***************************************************************************)
\* pageNumber is counted up to this value
MaxPageNumber == 3

Sites == [Urls -> Urls \cup {NoUrl}]

NoLoop == [pc |-> "idle", url |-> NoUrl, site |-> [u \in Urls |-> NoUrl],
           pageNumber |-> 1, pushed |-> 0]

LoopInputs == {[NoLoop EXCEPT !.pc = "scrape", !.url = u, !.site = f] :
                  u \in Urls, f \in Sites}

\* part_000 85-129: one turn of while (hasNextPage): the rows of the page
\* are collected, an enabled next control is clicked, and the loop waits.
\* page.waitForTimeout exists or not with the version of the browser
\* library: the wait returns or raises.
ScrapePage ==
    /\ loop.pc = "scrape"
    /\ LET nextBtn == loop.site[loop.url]
       IN  IF nextBtn # NoUrl
           THEN \E waits \in BOOLEAN :
                    loop' = IF waits
                            THEN [loop EXCEPT
                                     !.url = nextBtn,
                                     !.pageNumber =
                                         IF @ < MaxPageNumber THEN @ + 1 ELSE @]
                            ELSE [loop EXCEPT !.url = nextBtn, !.pc = "failed"]
           ELSE loop' = [loop EXCEPT !.pc = "push"]
    /\ UNCHANGED <<variant, queue, unit, datasetSize, norm, disc, tbl, scan>>

\* part_000 131-140: Dataset.pushData(formattedOutput)
PushFormattedOutput ==
    /\ loop.pc = "push"
    /\ loop' = [loop EXCEPT !.pc = "done", !.pushed = 1]
    /\ UNCHANGED <<variant, queue, unit, datasetSize, norm, disc, tbl, scan>>

(***************************************************************************)
(* The scan for the next link, routes.js 1453-1530.  The document is seen  *)
(* through what the scan reads of it: for each selector of the list the    *)
(* first element it matches, with or without href; the links of the page,  *)
(* each with or without 'next' in its text and with or without href; the   *)
(* active page number and the numbered pagination links.  The href of an   *)
(* element is written by the place of the element: <<strategy, position>>. *)
(***************************************************************************)
\* the links of the page, and the numbered links, are at most this many
MaxLinks == 2

\* routes.js 1459-1473: nextPageSelectors
nextPageSelectors ==
    <<"a.next", "a[rel=next]", "a:contains(Next)", "a:contains(next)",
      "a:contains(arrow)", "a[aria-label=Next]", ".pagination a:last-child",
      ".wikitable + .navbox a:contains(next)", "nav.pagination a.active + a",
      "ul.pager li.next a", "a.PagedList-skipToNext", ".pagination .next a",
      "a[title=Next page]">>

\* :contains is no CSS selector: document.querySelector raises a SyntaxError
InvalidSelector(i) == i \in {3, 4, 5, 8}

NoHref == <<"", 0>>

\* what document.querySelector(nextPageSelectors[i]) finds: nothing, an
\* element without href, an element with href; at most two selectors match
SelectorFinds ==
    LET valid == {i \in 1..Len(nextPageSelectors) : ~InvalidSelector(i)}
    IN  {[i \in 1..Len(nextPageSelectors) |->
             IF i = a THEN x ELSE IF i = b THEN y ELSE "none"] :
            a \in valid, b \in valid, x \in {"none", "nohref", "href"},
            y \in {"none", "nohref", "href"}}

\* a link of the page: next says that its text contains 'next'
PageLinks == [next : BOOLEAN, href : BOOLEAN]

\* a numbered pagination link
NumberedLinks == [num : {2, 3}, href : BOOLEAN] \ {[num |-> 3, href |-> FALSE]}

\* the active page number, 0 when the page shows none
ActivePages == {0, 1}

Dom(finds, links, active, pageLinks) ==
    [finds |-> finds, links |-> links, active |-> active, pageLinks |-> pageLinks]

Doms ==
    {Dom(f, l, a, p) :
        f \in SelectorFinds,
        l \in UNION {[1..k -> PageLinks] : k \in 0..MaxLinks},
        a \in ActivePages,
        p \in UNION {[1..k -> NumberedLinks] : k \in 0..MaxLinks}}

ScanFound(selector, url) == [found |-> TRUE, selector |-> selector, url |-> url]

ScanNotFound == [found |-> FALSE, selector |-> "", url |-> NoHref]

\* routes.js 1476-1486: the selectors from index i on
RECURSIVE BySelector(_, _)
BySelector(dom, i) ==
    IF i > Len(nextPageSelectors) THEN ScanNotFound
    ELSE IF ~InvalidSelector(i) /\ dom.finds[i] = "href"
    THEN ScanFound(nextPageSelectors[i], <<"selector", i>>)
    ELSE BySelector(dom, i + 1)

\* routes.js 1489-1500: the links from index i on
RECURSIVE ByText(_, _)
ByText(dom, i) ==
    IF i > Len(dom.links) THEN ScanNotFound
    ELSE IF dom.links[i].next /\ dom.links[i].href
    THEN ScanFound("textContent=next", <<"link", i>>)
    ELSE ByText(dom, i + 1)

\* routes.js 1503-1521: the numbered links from index i on; the href of the
\* link is returned as it is
RECURSIVE ByNumber(_, _)
ByNumber(dom, i) ==
    IF dom.active = 0 \/ i > Len(dom.pageLinks) THEN ScanNotFound
    ELSE IF dom.pageLinks[i].num = dom.active + 1
    THEN ScanFound("page=", IF dom.pageLinks[i].href THEN <<"number", i>> ELSE NoHref)
    ELSE ByNumber(dom, i + 1)

\* routes.js 1457-1524: the function evaluated in the page
checkForPagination_evaluate(dom) ==
    IF BySelector(dom, 1).found THEN BySelector(dom, 1)
    ELSE IF ByText(dom, 1).found THEN ByText(dom, 1)
    ELSE ByNumber(dom, 1)

NoScan == [dom |-> Dom([i \in 1..Len(nextPageSelectors) |-> "none"], <<>>, 0, <<>>),
           done |-> FALSE, rejected |-> FALSE, out |-> ScanNotFound]

ScanInputs == {[NoScan EXCEPT !.dom = d] : d \in Doms}

\* routes.js 1453-1530: the scan of one page; a rejected evaluate gives
\* { found: false }
CheckForPagination ==
    /\ ~scan.done
    /\ \E rejected \in BOOLEAN :
           scan' = [scan EXCEPT
                       !.done = TRUE,
                       !.rejected = rejected,
                       !.out = IF rejected THEN ScanNotFound
                               ELSE checkForPagination_evaluate(scan.dom)]
    /\ UNCHANGED <<variant, queue, unit, datasetSize, norm, disc, tbl, loop>>

(***************************************************************************)
(* Routing and the route handlers.                                         *)
(***************************************************************************)
Labels(v) ==
    IF v = "B" THEN {"table", "api", "error"} ELSE {"municipality-table", "error"}

\* the router: the handler of the label, the default handler otherwise
Route(v, label) == IF label \in Labels(v) THEN label ELSE "default"

\* routes.js 505-519
detectDataSourceType(request) ==
    IF \/ request.urlApi
       \/ request.apiToken
       \/ request.headers \in {"empty", "custom"}   \* any object is truthy
    THEN "api" ELSE "table"

\* routes.js 469-483
DefaultHandler_B(request, env) ==
    LET dataSourceType == IF request.dataSourceType # "" THEN request.dataSourceType
                          ELSE detectDataSourceType(request)
    IN  IF dataSourceType = "api" THEN extractApiData_B(request, env)
        ELSE extractTableData_B(request, env)

\* main.js 183-216: try { extractStructuredData } catch { pushData(error) }
Handler_M(request, env) ==
    Catch(extractStructuredData_M(request, env), Push(ErrorRecord(0)))

\* the handler the router runs for the request, by build
Handle(v, request, env) ==
    LET h == Route(v, request.label)
    IN  IF h = "error" THEN Nothing
        ELSE CASE v = "A" -> extractStructuredData_A(request, env)
               [] v = "M" -> Handler_M(request, env)
               [] OTHER ->
                    IF h = "table" THEN extractTableData_B(request, env)
                    ELSE IF h = "api" THEN extractApiData_B(request, env)
                    ELSE DefaultHandler_B(request, env)

\* the path the handler takes for the request: "html", "api", "asha", "log"
PathOf(v, request) ==
    LET h == Route(v, request.label)
    IN  IF h = "error" THEN "log"
        ELSE IF v = "A" THEN "html"
        ELSE IF v = "M" THEN (IF request.mode = "api" THEN "api" ELSE "html")
        ELSE IF h = "table" THEN "html"
        ELSE IF h = "api"
                \/ (IF request.dataSourceType # "" THEN request.dataSourceType
                    ELSE detectDataSourceType(request)) = "api"
        THEN (IF request.apiType = "asha" THEN "asha" ELSE "api")
        ELSE "html"

(***************************************************************************)
(* The environments a unit can meet.                                       *)
(***************************************************************************)
\* a full page of results
FullPage == [i \in 1..DefaultPageSize |-> i]

\* the fields of the response bodies the API handlers are run on
ApiFields ==
    {<<"data", Val("arr", 0, a)>> : a \in {<<>>, <<1>>}}
    \cup {<<"results", v>> : v \in {Val("arr", 0, <<1>>), Val("arr", 0, FullPage),
                                     Val("str", 3, <<>>)}}
    \cup {<<"next", Val("url", b, <<>>)>> : b \in 1..2}
    \cup {<<"nextPage", Val("url", 1, <<>>)>>}
    \cup {<<"pagination", v>> :
             v \in {ObjVal(0, 0, 0), ObjVal(3, 0, 0), ObjVal(0, 1, 0),
                    ObjVal(0, 0, 25), ObjVal(0, 1, 25)}}
    \cup {<<"totalCount", Val("num", n, <<>>)>> : n \in {2, 25}}

ApiBodies ==
    {NullBody, Body("num", 7, <<>>, <<>>), Body("arr", 0, <<>>, <<>>),
     Body("arr", 0, <<2, 1>>, <<>>)}
    \cup ObjBodies(ApiFields, MaxFields)

AshaBodies ==
    {b \in ApiBodies : \A i \in 1..Len(b.f) :
                          b.f[i][1] \in {"results", "totalCount", "data"}}

HtmlOps(v) ==
    {"pre", "extract", "noTableShot", "successShot", "pagEval", "addRequests"}
    \cup (CASE v = "A" -> {"extract2"}
            [] v = "B" -> {"errorShot"}
            [] OTHER   -> {"pagEval2"})

ApiOps(v) == IF v = "B" THEN {"fetchEval", "addRequests", "errorShot"}
             ELSE {"addRequests"}

AshaOps ==
    {"ashaPre", "ashaDom", "ashaNav", "navFalse", "addRequests",
     "domErrorShot", "ashaErrorShot", "errorShot"}

NoEnv == Env("none", FALSE, NotFound, "ok", 200, NullBody, NullBody, 0, 0, {})

HtmlEnvs(v) ==
    {Env(tab, direct, pag, "ok", 200, NullBody, NullBody, 0, 0, fails) :
        tab \in {"none", "empty", "rows"},
        direct \in (IF v = "A" THEN BOOLEAN ELSE {FALSE}),
        pag \in PagInfos, fails \in FailSets(HtmlOps(v))}

ErrorStatuses == {400, 503}

ApiEnvs(v) ==
    {Env("none", FALSE, NotFound, "ok", 200, b, NullBody, 0, 0, fails) :
        b \in ApiBodies, fails \in FailSets(ApiOps(v))}
    \cup {Env("none", FALSE, NotFound, "http", st, NullBody, NullBody, 0, 0, fails) :
        st \in ErrorStatuses, fails \in FailSets(ApiOps(v))}
    \cup {Env("none", FALSE, NotFound, "network", 200, NullBody, NullBody, 0, 0, fails) :
        fails \in FailSets(ApiOps(v))}
    \cup {Env("none", FALSE, NotFound, "text", 200, NullBody, NullBody, 0, 0, fails) :
        fails \in FailSets(ApiOps(v) \cup (IF v = "B" THEN {"readText"} ELSE {}))}

AshaEnvs ==
    {Env("none", FALSE, NotFound, "ok", 200, NullBody, b, 0, 0, fails) :
        b \in AshaBodies, fails \in FailSets(AshaOps)}
    \cup {Env("none", FALSE, NotFound, "ok", 200, NullBody, b, d[1], d[2], fails) :
        b \in {NullBody, Body("arr", 0, <<>>, <<>>)},
        d \in {<<2, 2>>, <<2, 25>>, <<10, 25>>},
        fails \in FailSets(AshaOps)}

EnvsFor(v, request) ==
    LET path == PathOf(v, request)
    IN  CASE path = "html" -> {e \in HtmlEnvs(v) : e.direct => e.tab = "empty"}
          [] path = "api"  -> ApiEnvs(v)
          [] path = "asha" -> AshaEnvs
          [] OTHER         -> {NoEnv}

(***************************************************************************)
(* The run of the crawler.                                                 *)
(***************************************************************************)
StartUrl == Url(1)

\* main.js 22-95 builds the start requests of build B
StartRequests(v) ==
    CASE v = "A" ->
            {Request(StartUrl, l, "", "", "", "", 0) :
                l \in {"", "municipality-table", "error"}}
      [] v = "M" ->
            {Request(StartUrl, l, "", "", "", "", 0) :
                l \in {"", "municipality-table", "error"}}
            \cup {Request(StartUrl, "", "", "api", t, "", 0) : t \in {"", "asha"}}
      [] OTHER ->
            {Request(StartUrl, l, "auto", "", "", "", 0) : l \in {"", "table", "error"}}
            \cup {Request(StartUrl, "table", "auto", "", "", "", 1)}
            \cup {Request(StartUrl, "", "table", "", "", "", 0)}
            \cup {[Request(StartUrl, "", "auto", "", "", "", 0) EXCEPT !.urlApi = TRUE],
                  [Request(StartUrl, "", "auto", "", "", "", 0) EXCEPT !.apiToken = TRUE],
                  [Request(StartUrl, "", "auto", "", "", "", 0) EXCEPT !.headers = "custom"]}
            \cup {Request(StartUrl, ld[1], ld[2], "", "", pt, 0) :
                ld \in {<<"api", "auto">>, <<"", "api">>}, pt \in {"", "page"}}
            \cup {Request(StartUrl, ld[1], ld[2], "", "asha", "", mp) :
                ld \in {<<"api", "auto">>, <<"", "api">>}, mp \in {0, 2}}

NoUnit ==
    [handler |-> "none", path |-> "none",
     request |-> Request(NoUrl, "", "", "", "", "", 0), env |-> NoEnv,
     res |-> Nothing]

Init ==
    /\ variant \in Variants
    /\ queue \in {<<r>> : r \in StartRequests(variant)}
    /\ unit = NoUnit
    /\ datasetSize = 0
    /\ norm = NoNorm
    /\ disc = NoDisc
    /\ tbl = NoTbl
    /\ loop = NoLoop
    /\ scan = NoScan

\* the crawler, idle, takes the next request and runs its route handler to
\* the end (maxConcurrency 1: one unit at a time)
RunHandler(name) ==
    /\ unit = NoUnit
    /\ queue # <<>>
    /\ LET request == Head(queue)
       IN  /\ Route(variant, request.label) = name
           /\ request.hop < MaxHops
           /\ \E env \in EnvsFor(variant, request) :
                LET res == Handle(variant, request, env)
                IN  /\ unit' = [handler |-> name, path |-> PathOf(variant, request),
                                request |-> request, env |-> env, res |-> res]
                    /\ queue' = Tail(queue) \o res.enq
                    /\ datasetSize' = datasetSize + Len(res.pushed)
    /\ UNCHANGED <<variant, norm, disc, tbl, loop, scan>>

DefaultHandler == RunHandler("default")

MunicipalityTableHandler == RunHandler("municipality-table")

TableHandler == RunHandler("table")

ApiHandler == RunHandler("api")

ErrorHandler == RunHandler("error")

\* the handler has returned: the crawler closes the page of the unit and
\* lets go of the request
Release ==
    /\ unit # NoUnit
    /\ unit' = NoUnit
    /\ UNCHANGED <<variant, queue, datasetSize, norm, disc, tbl, loop, scan>>

Next ==
    \/ Release
    \/ DefaultHandler
    \/ MunicipalityTableHandler
    \/ TableHandler
    \/ ApiHandler
    \/ ErrorHandler

Spec == Init /\ [][Next]_vars

InitNormalize ==
    /\ variant \in Variants
    /\ queue = <<>>
    /\ unit = NoUnit
    /\ datasetSize = 0
    /\ norm \in {n \in NormInputs : n.variant = variant}
    /\ disc = NoDisc
    /\ tbl = NoTbl
    /\ loop = NoLoop
    /\ scan = NoScan

InitDiscover ==
    /\ variant = "M"
    /\ queue = <<>>
    /\ unit = NoUnit
    /\ datasetSize = 0
    /\ norm = NoNorm
    /\ disc \in DiscInputs
    /\ tbl = NoTbl
    /\ loop = NoLoop
    /\ scan = NoScan

InitTable ==
    /\ variant \in {"B", "M"}
    /\ queue = <<>>
    /\ unit = NoUnit
    /\ datasetSize = 0
    /\ norm = NoNorm
    /\ disc = NoDisc
    /\ tbl \in TblInputs
    /\ loop = NoLoop
    /\ scan = NoScan

\* "U": the build of src/unnamed/part_000
InitClickLoop ==
    /\ variant = "U"
    /\ queue = <<>>
    /\ unit = NoUnit
    /\ datasetSize = 0
    /\ norm = NoNorm
    /\ disc = NoDisc
    /\ tbl = NoTbl
    /\ loop \in LoopInputs
    /\ scan = NoScan

NextClickLoop == ScrapePage \/ PushFormattedOutput

\* the handler, once started, keeps running
SpecClickLoop == InitClickLoop /\ [][NextClickLoop]_vars /\ WF_vars(NextClickLoop)

InitScan ==
    /\ variant = "B"
    /\ queue = <<>>
    /\ unit = NoUnit
    /\ datasetSize = 0
    /\ norm = NoNorm
    /\ disc = NoDisc
    /\ tbl = NoTbl
    /\ loop = NoLoop
    /\ scan \in ScanInputs

SpecScan == InitScan /\ [][CheckForPagination]_vars

SpecTable == InitTable /\ [][ExtractTableData]_vars

SpecDiscover == InitDiscover /\ [][FindTargetTable]_vars

SpecNormalize == InitNormalize /\ [][Normalize]_vars

(***************************************************************************)
(* Properties of the unit just processed (unit) and of the normaliser     *)
(* call just made (norm).                                                  *)
(***************************************************************************)

\* C1: HTML pagination: when the next-page URL the scan resolves for the
\* unit is already in the request's pagesProcessed, the unit enqueues no
\* continuation, whichever strategy found the link.
C1_VisitedNextNotEnqueued ==
    (/\ unit.path = "html"
     /\ unit.env.pag.url \in SeqSet(unit.request.pagesProcessed))
        => unit.res.enq = <<>>

\* reached: a later page of a chain whose rows were stored, whose scan found
\* a link back to a visited page, with every operation answering
C1_Witness ==
    /\ unit.path = "html"
    /\ unit.env.tab = "rows"
    /\ unit.env.fails = {}
    /\ unit.env.pag.found
    /\ unit.env.pag.url \in SeqSet(unit.request.pagesProcessed)
    /\ unit.res.pushed = <<DataRecord>>
    /\ unit.res.enq = <<>>

\* C2: API pagination: a continuation is never enqueued when its key is
\* already in the visited set the request carries: the continuation's URL
\* against processedUrls (handleApiPagination, every idiom), its page number
\* against processedPages (handleAshaPagination).
C2_ApiVisitedNextNotEnqueued ==
    \A i \in 1..Len(unit.res.enq) :
        /\ unit.path = "api" =>
              unit.res.enq[i].url \notin SeqSet(unit.request.processedUrls)
        /\ unit.path = "asha" =>
              unit.res.enq[i].pageNumber \notin SeqSet(unit.request.processedPages)

\* C3: every continuation an HTML unit (url u, page number n, visited list V)
\* enqueues carries the resolved next URL, pageNumber n + 1 (n = 1 when
\* absent) and the visited list V with u added; nothing of V is dropped, so
\* the list has one entry per unit of the chain behind the continuation.
C3_ContinuationCarriesVisited ==
    unit.path = "html" =>
        \A i \in 1..Len(unit.res.enq) :
            LET c == unit.res.enq[i]
                V == unit.request.pagesProcessed
                n == IF unit.request.pageNumber = 0 THEN 1
                     ELSE unit.request.pageNumber
            IN  /\ c.url = unit.env.pag.url
                /\ c.pageNumber = n + 1
                /\ SeqSet(c.pagesProcessed) = SeqSet(V) \cup {unit.request.url}
                /\ SubSeq(c.pagesProcessed, 1, Len(V)) = V
                /\ Len(c.pagesProcessed) = c.hop

\* reached: a unit that already carries visited pages enqueues a further one
C3_Witness ==
    /\ unit.path = "html"
    /\ unit.request.pagesProcessed # <<>>
    /\ unit.res.enq # <<>>

\* C4: one unit enqueues at most one continuation.
C4_AtMostOneContinuation == unit.handler # "none" => Len(unit.res.enq) <= 1

\* C5: every extraction unit of the builds of routes.js 464-1578 and of
\* main.js 178-793 appends exactly one record to the dataset (stated for the
\* units whose page, fetch and queue operations all answer).
C5_ExactlyOneAppend ==
    (/\ variant \in {"B", "M"}
     /\ unit.path \in {"html", "api", "asha"}
     /\ unit.env.fails = {})
        => Len(unit.res.pushed) = 1

\* C6: no exception leaves a route handler.
C6_NoExceptionLeavesHandler == unit.handler # "none" => ~unit.res.exc

C8_HttpErrorReported ==
    (unit.path = "api" /\ unit.env.fetch = "http" /\ unit.env.fails = {}) =>
        /\ unit.res.pushed = <<ErrorRecord(unit.env.status)>>
        /\ unit.res.enq = <<>>

\* C9: processApiData of routes.js 1060-1109 returns, for every body and
\* flavour, the array the resolution order locates, unchanged: the body if an
\* array; results if an array (ASHA or not); data; items; the first own field
\* holding a non-empty array; else the body wrapped.  (A null body and a
\* falsy scalar are the subject of C10.)
C9_ResolutionOrder ==
    LET b == norm.body
        results == Get(b, "results")
        data == Get(b, "data")
        items == Get(b, "items")
        k == IF b.t = "obj" THEN FirstArrayField(b, TRUE) ELSE 0
        located ==
            IF b.t = "arr" THEN RArr(b.a)
            ELSE IF norm.flavor = "asha" /\ IsArray(results) THEN RArr(results.a)
            ELSE IF IsArray(results) THEN RArr(results.a)
            ELSE IF IsArray(data) THEN RArr(data.a)
            ELSE IF IsArray(items) THEN RArr(items.a)
            ELSE IF k # 0 THEN RArr(b.f[k][2].a)
            ELSE RWrap
    IN  (norm.done /\ norm.variant = "B" /\ ~BodyFalsy(b)) => norm.out = located

\* C10: processApiData never raises and always returns an array, the empty
\* one for a null body.
C10_AlwaysAnArray ==
    norm.done =>
        /\ norm.out.t \in {"arr", "wrap"}
        /\ norm.body.t = "null" => norm.out = RArr(<<>>)


C12_OffsetLimit ==
    LET r == unit.request
        inM == variant = "M" /\ unit.path = "api" /\ unit.env.fetch = "ok"
                  /\ Truthy(Get(unit.env.body, "pagination"))
                  /\ unit.res.pushed # <<>> /\ unit.res.pushed[1].kind = "data"
        inB == variant = "B" /\ unit.path = "asha"
                  /\ ~NoRecords(processApiData_B(unit.env.captured, "asha"))
                  /\ ~BodyFalsy(unit.env.captured)
        offset == IF inM THEN r.apiParams.firstResult ELSE r.firstResult
        size == LET n == IF inM THEN r.apiParams.numberOfResults
                         ELSE r.numberOfResults
                IN  IF n = 0 THEN DefaultPageSize ELSE n
        total == IF inM THEN Get(unit.env.body, "pagination").o.totalResults
                 ELSE TotalCount(unit.env.captured)
        nextOffset(c) == IF inM THEN c.apiParams.firstResult ELSE c.firstResult
        conts == {i \in 1..Len(unit.res.enq) :
                     inM => nextOffset(unit.res.enq[i]) # offset}
    IN  (r.apiType = "asha" /\ unit.env.fails = {} /\ (inM \/ inB)) =>
            /\ (conts # {}) <=> (offset + size < total)
            /\ \A i \in conts : nextOffset(unit.res.enq[i]) = offset + size


C14_MaxPagesBoundsChain ==
    (unit.path \in {"html", "api", "asha"} /\ unit.request.maxPages > 0)
        => unit.request.hop + 1 <= unit.request.maxPages


\* C15: when an explicit table selector is supplied, discovery uses it
\* directly: the table is found iff an element matches the selector, and the
\* table extracted is the selector's (first) match.
C15_ExplicitSelectorUsed ==
    (disc.done /\ disc.tableSelector # NoSelector) =>
        LET match == QuerySelector(disc.page, disc.tableSelector)
        IN  /\ disc.out.found <=> match # 0
            /\ disc.out.found => QuerySelector(disc.page, disc.out.selector) = match


\* C16: in build B a start URL that declares no dataSourceType is detected by
\* the default handler: it takes the API path exactly when its URL contains
\* '/api/', '/rest/' or '.json' or an API token or custom headers were
\* supplied; a declared 'api' takes the API path and a declared 'table' the
\* table path.  main.js 29 stores 'auto' for an undeclared dataSourceType.
C16_AutoDetection ==
    (variant = "B" /\ unit.handler = "default" /\ unit.request.hop = 0) =>
        LET r == unit.request
            api == unit.path \in {"api", "asha"}
        IN  /\ r.dataSourceType = "auto" =>
                (api <=> (r.urlApi \/ r.apiToken \/ r.headers = "custom"))
            /\ r.dataSourceType = "api" => api
            /\ r.dataSourceType = "table" => unit.path = "html"



C18_OneRecordPerBodyRow ==
    (variant = "M" /\ tbl.done /\ tbl.table.hasThead /\ tbl.table.hasTbody) =>
        LET dataRows == SelectSeq(tbl.table.body, LAMBDA row : CellsOf(row, "td") # <<>>)
        IN  /\ Len(tbl.rows) = Len(dataRows)
            /\ \A i \in 1..Len(dataRows) :
                   tbl.rows[i] = RowData(CellsOf(dataRows[i], "td"), 0, tbl.headers, <<>>)


\* C19: every cell that row extraction of main.js stores holds
\* cleanNumeric(text), the digits, '.' and '-' of its cleaned text, when its
\* column name matches the numeric-name pattern (case-insensitive) and the
\* cleaned text without whitespace is made only of digits and . , - + %, and
\* holds the cleaned text verbatim otherwise.  (A cell whose column name a
\* later cell of its row shares is overwritten, and is not examined.)
C19_NumericColumns ==
    (variant = "M" /\ tbl.done) =>
        LET allRows == AllRows(tbl.table)
            dataRows == SelectSeq(SubSeq(allRows, StartIndex(tbl.table) + 1, Len(allRows)),
                                  LAMBDA row : CellsOf(row, "td") # <<>>)
            NameAt(i) == IF i <= Len(tbl.headers) THEN tbl.headers[i] ELSE Column_(i)
            Numeric(name, text) ==
                LET bare == SelectSeq(text, LAMBDA c : c \notin {" ", "\n"})
                IN  /\ \E w \in NumericNames :
                           \E p \in 1..Len(name) :
                               /\ p + Len(w) - 1 <= Len(name)
                               /\ \A k \in 1..Len(w) : Lower(name[p + k - 1]) = w[k]
                    /\ bare # <<>>
                    /\ \A p \in 1..Len(bare) :
                           bare[p] \in Digits \cup {".", ",", "-", "+", "%"}
        IN  /\ Len(tbl.rows) = Len(dataRows)
            /\ \A r \in 1..Len(dataRows) :
                   LET cells == CellsOf(dataRows[r], "td")
                   IN  \A i \in 1..Len(cells) :
                           LET text == cleanText(IF cells[i].link.present
                                                 THEN cells[i].link.text ELSE cells[i].text)
                               kept == SelectSeq(text, LAMBDA c : c \in Digits \cup {".", "-"})
                               value == IF Numeric(NameAt(i), text) THEN kept ELSE text
                           IN  (\A k \in (i + 1)..Len(cells) : NameAt(k) # NameAt(i)) =>
                                   \E e \in 1..Len(tbl.rows[r]) :
                                       tbl.rows[r][e] = <<NameAt(i), value>>

C19_Witness ==
    /\ variant = "M" /\ tbl.done /\ ~tbl.table.hasThead
    /\ tbl.headers = <<<<"P", "o", "p", "u", "l", "a", "t", "i", "o", "n">>>>
    /\ Len(tbl.table.body) = 2
    /\ tbl.table.body[2] = <<Cell("td", <<"1", ",", "2", "3", "4">>, NoLink)>>
    /\ tbl.rows = <<<<<<tbl.headers[1], <<"1", "2", "3", "4">>>>>>>>


\* C20: row extraction (main.js and routes.js) never drops a row or a cell
\* because the row has more cells than there are headers: every row it
\* processes that has a data cell gives a record, and the cell at 0-based
\* position i is stored under headers[i] when i < len(headers) and under
\* the synthesized name Column_{i+1} otherwise.
C20_ExcessCellsKept ==
    (variant \in {"B", "M"} /\ tbl.done) =>
        LET allRows == AllRows(tbl.table)
            start == IF variant = "M" THEN StartIndex(tbl.table) ELSE StartIndex_B(tbl.table)
            dataRows == SelectSeq(SubSeq(allRows, start + 1, Len(allRows)),
                                  LAMBDA row : CellsOf(row, "td") # <<>>)
            NameAt(i) == IF i <= Len(tbl.headers) THEN tbl.headers[i] ELSE Column_(i)
        IN  /\ Len(tbl.rows) = Len(dataRows)
            /\ \A r \in 1..Len(dataRows) :
                   \A i \in 1..Len(CellsOf(dataRows[r], "td")) :
                       \E e \in 1..Len(tbl.rows[r]) : tbl.rows[r][e][1] = NameAt(i)


\* C21: when a table has no header cell (th) and its headers are taken from
\* the td cells of its first row, row extraction (main.js and routes.js)
\* skips that first row: no record is emitted for the row that supplied the
\* headers, and the records correspond to the rows after it.
C21_HeaderRowSkipped ==
    (/\ variant \in {"B", "M"} /\ tbl.done /\ ~tbl.table.hasThead
     /\ ThTexts(AllTr(tbl.table)) = <<>>
     /\ tbl.table.body # <<>>
     /\ CellsOf(tbl.table.body[1], "td") # <<>>) =>
        LET later == SelectSeq(Tail(tbl.table.body), LAMBDA row : CellsOf(row, "td") # <<>>)
        IN  /\ Len(tbl.headers) = Len(CellsOf(tbl.table.body[1], "td"))
            /\ Len(tbl.rows) = Len(later)


\* C22: the table whose rows are extracted is the table discovery chose: the
\* selector findTargetTable returns resolves, as the first match in
\* document order, to the table that won the selection (the first
\* wikitable sortable, else the first wikitable, else the first table with
\* the highest row count).
C22_SelectorResolvesToWinner ==
    (disc.done /\ disc.out.found) =>
        LET page == disc.page
            First(S) == CHOOSE i \in S : \A j \in S : i <= j
            both == {i \in 1..Len(page) : {"wikitable", "sortable"} \subseteq page[i].classes}
            wiki == {i \in 1..Len(page) : "wikitable" \in page[i].classes}
            most == {i \in 1..Len(page) : \A j \in 1..Len(page) : page[j].rows <= page[i].rows}
            winner == IF both # {} THEN First(both)
                      ELSE IF wiki # {} THEN First(wiki)
                      ELSE First(most)
        IN  QuerySelector(page, disc.out.selector) = winner


\* C23: within one continuation chain no URL is processed twice: every
\* continuation that handlePagination (HTML path) or handleApiPagination
\* (API path) of routes.js 464-1578 enqueues targets a URL different from the URL of
\* the current unit and from every URL processed earlier in the chain.
C23_NoUrlTwice ==
    (variant = "B" /\ unit.path \in {"html", "api"}) =>
        \A i \in 1..Len(unit.res.enq) :
            LET c == unit.res.enq[i]
                earlier == IF unit.path = "html" THEN unit.request.pagesProcessed
                           ELSE unit.request.processedUrls
            IN  /\ c.url # unit.request.url
                /\ c.url \notin SeqSet(earlier)


\* C24: HTML pagination terminates: with finitely many page URLs reachable
\* through next links, the in-page next-click loop reaches the state with
\* no further page (its handler returns or raises) after finitely many
\* pages, whatever next links the pages expose.
C24_ClickLoopTerminates == <>(loop.pc \in {"done", "failed"})


\* C25: offset/limit idiom over a whole chain: with a total count T and a
\* page size p >= 1, the chain of continuations started at offset 0
\* processes the offsets 0, p, 2p, ... below T each once, skipping none,
\* and then stops: the unit behind k continuations is at offset k * p, it
\* enqueues exactly the continuation at offset + p when offset + p < T and
\* nothing otherwise.
C25_OffsetChain ==
    LET r == unit.request
        inM == variant = "M" /\ unit.path = "api" /\ unit.env.fetch = "ok"
                  /\ Truthy(Get(unit.env.body, "pagination"))
                  \* no response of the chain offers a next page to follow
                  /\ Get(unit.env.body, "pagination").o.nextPage = 0
                  /\ r.apiParams.page = 0
                  /\ unit.res.pushed # <<>> /\ unit.res.pushed[1].kind = "data"
        inB == variant = "B" /\ unit.path = "asha"
                  /\ ~NoRecords(processApiData_B(unit.env.captured, "asha"))
                  /\ ~BodyFalsy(unit.env.captured)
        offset == IF inM THEN r.apiParams.firstResult ELSE r.firstResult
        p == LET n == IF inM THEN r.apiParams.numberOfResults ELSE r.numberOfResults
             IN  IF n = 0 THEN DefaultPageSize ELSE n
        T == IF inM THEN Get(unit.env.body, "pagination").o.totalResults
             ELSE TotalCount(unit.env.captured)
        nextOffset(c) == IF inM THEN c.apiParams.firstResult ELSE c.firstResult
    IN  (r.apiType = "asha" /\ unit.env.fails = {} /\ (inM \/ inB)) =>
            /\ offset = r.hop * p
            /\ offset + p < T =>
                  /\ Len(unit.res.enq) = 1
                  /\ nextOffset(unit.res.enq[1]) = offset + p
            /\ offset + p >= T => unit.res.enq = <<>>


\* C26: column names within one record are collision-safe: every record row
\* extraction of main.js produces has exactly as many keys as its row has
\* data cells, so that no cell value overwrites another, whatever the header
\* list (duplicate header texts, header texts of the form Column_k), and
\* every key is a non-empty string.
C26_CollisionSafeKeys ==
    (variant = "M" /\ tbl.done) =>
        LET allRows == AllRows(tbl.table)
            dataRows == SelectSeq(SubSeq(allRows, StartIndex(tbl.table) + 1, Len(allRows)),
                                  LAMBDA row : CellsOf(row, "td") # <<>>)
        IN  /\ Len(tbl.rows) = Len(dataRows)
            /\ \A r \in 1..Len(dataRows) :
                   /\ Len(tbl.rows[r]) = Len(CellsOf(dataRows[r], "td"))
                   /\ \A e \in 1..Len(tbl.rows[r]) : tbl.rows[r][e][1] # <<>>


\* C27: with no explicit selector and no wikitable on the page,
\* findTargetTable selects the table of maximal score = 50 wikitable +
\* 30 sortable + 20 data + 20 grid + 15 list + min(rowCount, 50) +
\* 2 headerCellCount, the first in document order among equals, and reports
\* found only if that table has more than 5 rows; otherwise, and on a page
\* without tables, it reports not found.
C27_ScoreSelection ==
    (/\ disc.done /\ disc.tableSelector = NoSelector
     /\ \A i \in 1..Len(disc.page) : "wikitable" \notin disc.page[i].classes) =>
        LET page == disc.page
            Has(i, c) == IF c \in page[i].classes THEN 1 ELSE 0
            Score(i) == 50 * Has(i, "wikitable") + 30 * Has(i, "sortable")
                        + 20 * Has(i, "data") + 20 * Has(i, "grid")
                        + 15 * Has(i, "list")
                        + (IF page[i].rows < 50 THEN page[i].rows ELSE 50)
                        + 2 * page[i].headerCells
            top == {i \in 1..Len(page) : \A j \in 1..Len(page) : Score(j) <= Score(i)}
            best == CHOOSE i \in top : \A j \in top : i <= j
        IN  IF page # <<>> /\ page[best].rows > 5
            THEN disc.out.found /\ Matches(disc.out.selector, page, best)
            ELSE ~disc.out.found


\* C27 (amended): when no table of the page is a wikitable, findTargetTable
\* selects the first table in document order among those with the most
\* tbody rows and reports found, with the selector built from that table's
\* id, else its class list, else its position, only if it has more than 5
\* rows; otherwise, and on a page without tables, it reports not found.
C27_RowCountSelection ==
    (/\ disc.done
     /\ \A i \in 1..Len(disc.page) : "wikitable" \notin disc.page[i].classes) =>
        LET page == disc.page
            most == {i \in 1..Len(page) : \A j \in 1..Len(page) : page[j].rows <= page[i].rows}
            best == CHOOSE i \in most : \A j \in most : i <= j
        IN  IF page # <<>> /\ page[best].rows > 5
            THEN /\ disc.out.found
                 /\ Matches(disc.out.selector, page, best)
                 /\ disc.out.selector =
                        IF page[best].hasId THEN IdSelector(best)
                        ELSE IF page[best].classes # {} THEN Selector(page[best].classes, 0)
                        ELSE Selector({}, best)
            ELSE ~disc.out.found

\* reached: the table with the most rows wins against an earlier table of
\* higher score
C27_Witness ==
    /\ disc.done /\ disc.out.found /\ Len(disc.page) = 2
    /\ disc.tableSelector = NoSelector
    /\ disc.page[1] = PageTable(FALSE, {"data"}, 6, 4)
    /\ disc.page[2] = PageTable(FALSE, {}, 8, 0)
    /\ disc.out.selector = Selector({}, 2)


\* C28: whatever the row counts, findTargetTable accepts at once when some
\* table carries both classes wikitable and sortable, returning the
\* selector table.wikitable.sortable, and otherwise accepts when some table
\* carries class wikitable, returning table.wikitable: these two tiers come
\* before every row-count comparison.
C28_WikitableTiers ==
    disc.done =>
        LET page == disc.page
            both == \E i \in 1..Len(page) : {"wikitable", "sortable"} \subseteq page[i].classes
            wiki == \E i \in 1..Len(page) : "wikitable" \in page[i].classes
        IN  /\ both => disc.out = Found(Selector({"wikitable", "sortable"}, 0))
            /\ (~both /\ wiki) => disc.out = Found(Selector({"wikitable"}, 0))

\* reached: a wikitable without rows is accepted although a later table has
\* the most rows
C28_Witness ==
    /\ disc.done /\ Len(disc.page) = 2
    /\ disc.page[1] = PageTable(FALSE, {"wikitable"}, 0, 0)
    /\ disc.page[2] = PageTable(TRUE, {"data"}, 8, 4)
    /\ disc.out = Found(Selector({"wikitable"}, 0))


\* C29: checkForPagination tries its strategies in a fixed order (the
\* selectors of its list in the listed order, then the links whose text
\* contains 'next', then the numbered link equal to the active page number
\* + 1) and returns the first candidate that has an href; a strategy that
\* raises or that matches an element without href does not stop the
\* search, and the result is not-found when no candidate has an href.
C29_StrategyOrder ==
    (scan.done /\ ~scan.rejected) =>
        LET dom == scan.dom
            n == Len(nextPageSelectors)
            bySelector == {i \in 1..n : dom.finds[i] = "href"}
            byText == {i \in 1..Len(dom.links) : dom.links[i].next /\ dom.links[i].href}
            byNumber == {i \in 1..Len(dom.pageLinks) :
                            /\ dom.active # 0
                            /\ dom.pageLinks[i].num = dom.active + 1
                            /\ dom.pageLinks[i].href}
            First(S) == CHOOSE i \in S : \A j \in S : i <= j
        IN  scan.out =
                IF bySelector # {}
                THEN ScanFound(nextPageSelectors[First(bySelector)],
                               <<"selector", First(bySelector)>>)
                ELSE IF byText # {}
                THEN ScanFound("textContent=next", <<"link", First(byText)>>)
                ELSE IF byNumber # {}
                THEN ScanFound("page=", <<"number", First(byNumber)>>)
                ELSE ScanNotFound

====
